---- MODULE Spec2Model ----
(***************************************************************************)
(* A model of the three views of the barcode inventory front end:          *)
(*   Scanner   (src/src/pages/Scanner.tsx)                                 *)
(*   Dashboard (src/unnamed/part_000)                                      *)
(*   Settings  (src/src/pages/Settings.tsx)                                *)
(* One view is mounted at a time (the router mounts one page per route);   *)
(* the variable view names it.  Strings are sequences of one-character     *)
(* strings; a nullable value is a sequence of length 0 (null) or 1.        *)
(* Time advances in ticks of one scan idle period; the message expiry      *)
(* timers are a bag of pending delays, each firing at some later moment.   *)
(***************************************************************************)
EXTENDS Integers, Sequences, FiniteSets, Bags, TLC

VARIABLES
    view,              \* the mounted page
    \* ---- Scanner.tsx component state
    barcodeInput,      \* useState('')            line 10
    lastScannedItem,   \* useState<any>(null)     line 11
    scanMessage,       \* useState(null)          line 12
    isProcessing,      \* useState(false)         line 13
    scanTimeout,       \* scanTimeoutRef + the browser timer it names, line 15
    msgTimers,         \* bag of the delays of the pending message expiry timers
    inflight,          \* sync-inventory requests awaiting their response
    nreq,              \* number of requests issued so far
    \* ---- observation of the scanner run (history, not program state)
    nkeys,             \* characters delivered to the barcode input so far
    obs,               \* the observed run of characters, see NextObs
    subs,              \* the scan requests sent since the observation began
    gapTicks,          \* ticks since the last delivered character
    scannerLeft,       \* the Scanner has been unmounted (navigate away)
    \* ---- Dashboard component state (part_000)
    inventory,         \* useState<InventoryItem[]>([])   line 23
    filteredInventory, \* useState<InventoryItem[]>([])   line 24
    dashLoading,       \* useState(true), "loading"       line 25
    user,              \* useAuth().user: null or the signed-in user
    mounted,           \* the Dashboard has not been torn down
    channels,          \* active subscriptions to inventory_changes
    searchQuery,       \* useState('')                    line 26
    editingItem,       \* useState<InventoryItem|null>    line 27
    alerts,            \* number of alert() dialogs shown
    fetches,           \* loadInventory requests awaiting their response
    mutations,         \* update and delete requests awaiting their response
    notes,             \* change notifications not yet delivered to the view
    nops,              \* requests issued, edits typed and foreign changes so far
    db,                \* the owner's rows of inventory_items, newest first
    \* ---- Settings.tsx component state
    spreadsheetId,     \* useState('')             line 20
    range,             \* useState('Sheet1!A:F')   line 21
    apiKey,            \* useState('')             line 22
    accessToken,       \* useState('')             line 23
    loading,           \* useState(false)          line 24
    message,           \* useState(null)           line 25
    syncHistory,       \* useState<any[]>([])      line 26
    sheetReqs,         \* import and export requests awaiting their response
    histReqs,          \* loadSyncHistory requests awaiting their response
    nsheet,            \* number of import and export requests issued so far
    syncLog,           \* the owner's rows of google_sheets_sync, newest first
    ev                 \* the kind of the last event of the Dashboard or Settings view

scannerVars == <<barcodeInput, lastScannedItem, scanMessage, isProcessing,
                 scanTimeout, msgTimers, inflight, nreq,
                 nkeys, obs, subs, gapTicks, scannerLeft>>

feedVars == <<user, mounted, channels>>

dashVars == <<feedVars, inventory, filteredInventory, dashLoading, searchQuery,
              editingItem, alerts, fetches, mutations, notes, nops, db>>

settingsVars == <<spreadsheetId, range, apiKey, accessToken, loading, message,
                  syncHistory, sheetReqs, histReqs, nsheet, syncLog>>

vars == <<view, scannerVars, dashVars, settingsVars, ev>>

----------------------------------------------------------------------------
(* Bounds of the model *)

MaxKeys == 2        \* characters delivered to the barcode input in one run
MaxRequests == 4    \* sync-inventory requests issued in one run
MaxQty == 1         \* largest quantity the remote service reports
MaxQueryLen == 2    \* length of the search query
MaxDashOps == 3     \* requests, typed edits and foreign changes in one
                    \* run of the Dashboard
MaxSheetOps == 1    \* import and export requests answered in one run

(* Program constants *)

ScanIdleMs == 100   \* Scanner.tsx:90
ScanMsgMs == 3000   \* Scanner.tsx:63
QtyMsgMs == 2000    \* Scanner.tsx:123
HistoryLimit == 5   \* Settings.tsx:43

TickMs == ScanIdleMs
IdleTicks == ScanIdleMs \div TickMs

----------------------------------------------------------------------------
(* Values *)

None == <<>>
Some(x) == <<x>>

Chars == {"1", " "}
Thresholds == {0}

RECURSIVE TrimStart(_)
TrimStart(s) == IF s # <<>> /\ Head(s) = " " THEN TrimStart(Tail(s)) ELSE s

RECURSIVE TrimEnd(_)
TrimEnd(s) ==
    IF s # <<>> /\ s[Len(s)] = " " THEN TrimEnd(SubSeq(s, 1, Len(s) - 1)) ELSE s

\* String.prototype.trim
Trim(s) == TrimEnd(TrimStart(s))

\* `Product-${barcode.trim()}`
ProductName(barcode) == <<"Product-">> \o Trim(barcode)

Msg(type, text, product, quantity) ==
    [type |-> type, text |-> text, product |-> product, quantity |-> quantity]

\* A request that carries the buffer as typed.
ScanRequestUntrimmed(id, barcode) ==
    [id |-> id, kind |-> "scan", action |-> "increment",
     barcode |-> barcode, product |-> ProductName(barcode), shown |-> -1,
     snapshot |-> lastScannedItem]

\* The body of the request handleBarcodeSubmit sends; snapshot is the
\* last-scanned item on display when it is sent.
ScanRequest(id, barcode) ==
    [id |-> id, kind |-> "scan", action |-> "increment",
     barcode |-> Trim(barcode), product |-> ProductName(barcode), shown |-> -1,
     snapshot |-> lastScannedItem]

\* An adjustment that names the barcode in the input instead of the
\* snapshot's.
QuantityRequestFromInput(id, action) ==
    [id |-> id, kind |-> "quantity", action |-> action,
     barcode |-> Trim(barcodeInput), product |-> <<>>,
     shown |-> lastScannedItem[1].quantity, snapshot |-> lastScannedItem]

\* The body of the request handleQuantityChange sends; shown is the quantity
\* on display when it is sent.
QuantityRequest(id, action) ==
    [id |-> id, kind |-> "quantity", action |-> action,
     barcode |-> lastScannedItem[1].barcode, product |-> <<>>,
     shown |-> lastScannedItem[1].quantity, snapshot |-> lastScannedItem]

\* What supabase.functions.invoke may resolve to: {data, error}.
\*   ok    : error is null, data carries the item
\*   error : error is set, with a message ("remote") or without one ("")
\*   empty : error is null and data is null
Outcomes(req) ==
    { [kind |-> "ok", msg |-> "",
       item |-> [barcode |-> req.barcode,
                 product |-> <<"Product-">> \o req.barcode,
                 quantity |-> q, low_stock_threshold |-> t]] :
         q \in 0..MaxQty, t \in Thresholds }
    \cup
    { [kind |-> k, msg |-> m,
       item |-> [barcode |-> <<>>, product |-> <<>>,
                 quantity |-> 0, low_stock_threshold |-> 0]] :
         k \in {"error"}, m \in {"remote", ""} }
    \cup
    { [kind |-> "empty", msg |-> "",
       item |-> [barcode |-> <<>>, product |-> <<>>,
                 quantity |-> 0, low_stock_threshold |-> 0]] }

----------------------------------------------------------------------------
(* Scanner: derived display *)

\* A barcode input that is never disabled.
InputAlwaysEnabled == FALSE

\* disabled={isProcessing} on the barcode input
InputDisabled == isProcessing

\* disabled={isProcessing || !barcodeInput.trim()} on the Submit button
SubmitDisabled == isProcessing \/ Trim(barcodeInput) = <<>>

\* A decrease control without the floor at zero.
DecrementDisabledWhileBusy == isProcessing

\* disabled={isProcessing || lastScannedItem.quantity <= 0}
DecrementDisabled == isProcessing \/ lastScannedItem[1].quantity <= 0

\* disabled={isProcessing}
IncrementDisabled == isProcessing

QuantityDisabled(action) ==
    IF action = "decrement" THEN DecrementDisabled ELSE IncrementDisabled

\* {lastScannedItem.quantity <= lastScannedItem.low_stock_threshold && ...}
LowStock(item) == item.quantity <= item.low_stock_threshold

ScannerLowStockShown ==
    lastScannedItem # None /\ LowStock(lastScannedItem[1])

----------------------------------------------------------------------------
(* Scanner: handlers *)

\* The Scanner is on the screen.
ScannerShown == view = "scanner" /\ ~scannerLeft

\* handleBarcodeSubmit up to its await.  busy is the isProcessing of the
\* render whose closure runs: the current one for the form, the one captured
\* when the timer was armed for the debounce callback.
HandleBarcodeSubmit(barcode, busy) ==
    IF Trim(barcode) = <<>> \/ busy
    THEN UNCHANGED <<isProcessing, scanMessage, inflight, nreq>>
    ELSE /\ nreq < MaxRequests
         /\ isProcessing' = TRUE
         /\ scanMessage' = None
         /\ inflight' = inflight \cup {ScanRequest(nreq + 1, barcode)}
         /\ nreq' = nreq + 1

\* A debounce whose callback submits the buffer of the render before the
\* change instead of the changed value.
ArmedTimerStale(value, busy) ==
    Some([value |-> barcodeInput, busy |-> busy, left |-> IdleTicks])

\* The timer handleInputChange arms: its callback closes over value and
\* over the handleBarcodeSubmit (hence the isProcessing) of this render.
ArmedTimer(value, busy) ==
    Some([value |-> value, busy |-> busy, left |-> IdleTicks])

\* The gap before a character, against the idle threshold.
GapKind ==
    IF gapTicks < IdleTicks THEN "short"
    ELSE IF gapTicks = IdleTicks THEN "edge"
    ELSE "long"

\* Nothing of the scan pipeline is pending.
Quiescent == scanTimeout = None /\ inflight = {} /\ ~isProcessing

NoObs ==
    [shape |-> "none", base |-> <<>>, part1 |-> <<>>, part2 |-> <<>>,
     dropped |-> FALSE]

Void == [NoObs EXCEPT !.shape = "other"]

Live == obs.shape \in {"burst", "split"}

\* The observation of a run of characters.  It begins (fresh) with a
\* character delivered while the pipeline is quiescent, base being the buffer
\* it finds.  shape is "burst" while every gap has been below the threshold,
\* "split" once exactly one gap has exceeded it; part1 and part2 are the
\* characters delivered before and after that gap; dropped says that one of
\* them reached the disabled input.  Any other gap, a manual submit or a
\* quantity press ends the observation (Void).
NextObs(c, fresh) ==
    IF fresh
    THEN [NoObs EXCEPT !.shape = "burst", !.base = barcodeInput,
                       !.part1 = <<c>>]
    ELSE LET sh == IF obs.shape = "burst" /\ GapKind = "short" THEN "burst"
                   ELSE IF obs.shape = "burst" /\ GapKind = "long" THEN "split"
                   ELSE IF obs.shape = "split" /\ GapKind = "short" THEN "split"
                   ELSE "other"
         IN  IF sh = "other"
             THEN Void
             ELSE [obs EXCEPT !.shape = sh,
                              !.part1 = IF sh = "burst" THEN Append(@, c) ELSE @,
                              !.part2 = IF sh = "split" THEN Append(@, c) ELSE @,
                              !.dropped = @ \/ InputDisabled]

\* The record of a scan request sent during the observation: the argument
\* of handleBarcodeSubmit, the barcode of the request, and how many of the
\* observed characters had been delivered.
Observed(barcode, busy) ==
    IF Live /\ Trim(barcode) # <<>> /\ ~busy
    THEN Append(subs, [arg |-> barcode,
                       barcode |-> ScanRequest(nreq + 1, barcode).barcode,
                       at |-> Len(obs.part1) + Len(obs.part2)])
    ELSE subs

\* A character reaches the barcode input.  A disabled input takes no input;
\* otherwise onChange runs handleInputChange(e.target.value).
Keystroke(c, fresh) ==
    /\ ScannerShown
    /\ nkeys < MaxKeys
    /\ IF fresh THEN Quiescent ELSE obs.shape # "none"
    /\ nkeys' = nkeys + 1
    /\ obs' = NextObs(c, fresh)
    /\ subs' = IF fresh \/ obs'.shape = "other" THEN <<>> ELSE subs
    /\ gapTicks' = 0
    /\ IF InputDisabled
       THEN UNCHANGED <<barcodeInput, scanTimeout>>
       ELSE /\ barcodeInput' = Append(barcodeInput, c)
            /\ scanTimeout' = ArmedTimer(Append(barcodeInput, c), isProcessing)
    /\ UNCHANGED <<view, ev, scannerLeft, dashVars, settingsVars, lastScannedItem, scanMessage, isProcessing,
                   msgTimers, inflight, nreq>>

\* The debounce callback: if (value.trim()) handleBarcodeSubmit(value)
ScanTimerFire ==
    /\ ScannerShown
    /\ scanTimeout # None
    /\ scanTimeout[1].left = 0
    /\ scanTimeout' = None
    /\ IF Trim(scanTimeout[1].value) # <<>>
       THEN HandleBarcodeSubmit(scanTimeout[1].value, scanTimeout[1].busy)
       ELSE UNCHANGED <<isProcessing, scanMessage, inflight, nreq>>
    /\ subs' = Observed(scanTimeout[1].value, scanTimeout[1].busy)
    /\ UNCHANGED <<view, ev, scannerLeft, dashVars, settingsVars, barcodeInput, lastScannedItem, msgTimers,
                   nkeys, obs, gapTicks>>

\* The form is submitted (the Submit button, or Enter in the input, which
\* the browser lets through only while the button is enabled), and
\* handleManualSubmit runs: clearTimeout, then handleBarcodeSubmit(barcodeInput)
ManualSubmit ==
    /\ ScannerShown
    /\ ~SubmitDisabled
    /\ scanTimeout' = None
    /\ HandleBarcodeSubmit(barcodeInput, isProcessing)
    /\ obs' = Void
    /\ subs' = <<>>
    /\ gapTicks' = 0
    /\ UNCHANGED <<view, ev, scannerLeft, dashVars, settingsVars, barcodeInput, lastScannedItem, msgTimers, nkeys>>

\* A press of the - or + button, then handleQuantityChange up to its await.
QuantityPress(action) ==
    /\ ScannerShown
    /\ lastScannedItem # None
    /\ ~QuantityDisabled(action)
    /\ ~isProcessing
    /\ nreq < MaxRequests
    /\ isProcessing' = TRUE
    /\ inflight' = inflight \cup {QuantityRequest(nreq + 1, action)}
    /\ nreq' = nreq + 1
    /\ obs' = Void
    /\ subs' = <<>>
    /\ gapTicks' = 0
    /\ UNCHANGED <<view, ev, scannerLeft, dashVars, settingsVars, barcodeInput, lastScannedItem, scanMessage,
                   scanTimeout, msgTimers, nkeys>>

\* The generic text of a catch block.
Fallback(kind) ==
    IF kind = "scan" THEN "Failed to process barcode"
    ELSE "Failed to update quantity"

SuccessMsg(kind, item) ==
    IF kind = "scan"
    THEN Msg("success", "Scanned", item.product, item.quantity)
    ELSE Msg("success", "Updated quantity", <<>>, item.quantity)

ExpiryMs(kind) == IF kind = "scan" THEN ScanMsgMs ELSE QtyMsgMs

ErrorMsg(kind, text) ==
    Msg("error", IF text = "" THEN Fallback(kind) ELSE text, <<>>, -1)

\* A scan handler whose cleanup is not in a finally block and is skipped.
ScanFinallySkipped == UNCHANGED <<isProcessing, barcodeInput>>

\* A scan handler whose cleanup forgets the input buffer.
ScanFinallyKeepsBuffer == isProcessing' = FALSE /\ UNCHANGED barcodeInput

\* finally { setIsProcessing(false); setBarcodeInput('') }
ScanFinally == isProcessing' = FALSE /\ barcodeInput' = <<>>

\* finally { setIsProcessing(false) }
QuantityFinally == isProcessing' = FALSE /\ UNCHANGED barcodeInput

\* The rest of handleBarcodeSubmit / handleQuantityChange: try, catch, finally.
Response(req, out) ==
    /\ ScannerShown
    /\ req \in inflight
    /\ out \in Outcomes(req)
    /\ inflight' = inflight \ {req}
    /\ lastScannedItem' =
          IF out.kind = "ok" THEN Some(out.item)
          ELSE IF out.kind = "empty" THEN None
          ELSE lastScannedItem
    /\ scanMessage' =
          IF out.kind = "ok" THEN Some(SuccessMsg(req.kind, out.item))
          ELSE IF out.kind = "empty" THEN Some(ErrorMsg(req.kind, "TypeError"))
          ELSE Some(ErrorMsg(req.kind, out.msg))
    /\ msgTimers' =
          IF out.kind = "ok"
          THEN msgTimers (+) SetToBag({ExpiryMs(req.kind)})
          ELSE msgTimers
    /\ IF req.kind = "scan" THEN ScanFinally ELSE QuantityFinally
    /\ UNCHANGED <<view, ev, scannerLeft, dashVars, settingsVars, scanTimeout, nreq, nkeys, obs, subs, gapTicks>>

\* setTimeout(() => setScanMessage(null), ms): a pending expiry timer fires.
MsgTimerFire(ms) ==
    /\ ScannerShown
    /\ BagIn(ms, msgTimers)
    /\ msgTimers' = msgTimers (-) SetToBag({ms})
    /\ scanMessage' = None
    /\ UNCHANGED <<view, ev, scannerLeft, dashVars, settingsVars, barcodeInput, lastScannedItem, isProcessing,
                   scanTimeout, inflight, nreq, nkeys, obs, subs, gapTicks>>

\* One idle period passes; a debounce timer that is due fires first.
Tick ==
    /\ ScannerShown
    /\ (IF scanTimeout = None THEN TRUE ELSE scanTimeout[1].left > 0)
    /\ gapTicks' = IF Live /\ gapTicks <= IdleTicks THEN gapTicks + 1
                    ELSE gapTicks
    /\ scanTimeout' =
          IF scanTimeout = None THEN None
          ELSE Some([scanTimeout[1] EXCEPT !.left = @ - 1])
    /\ UNCHANGED <<view, ev, scannerLeft, dashVars, settingsVars, barcodeInput, lastScannedItem, scanMessage,
                   isProcessing, msgTimers, inflight, nreq, nkeys, obs, subs>>

\* The Scanner leaves the screen (navigate('/dashboard'), or
\* navigate('/login') of the first effect): the state of the component is
\* discarded.  No effect of the component returns a cleanup, so the
\* debounce timer stays armed and the requests in flight stay in flight;
\* the expiry timers are left to callbacks that set discarded state.
LeaveScanner ==
    /\ ScannerShown
    /\ scannerLeft' = TRUE
    /\ barcodeInput' = <<>>
    /\ lastScannedItem' = None
    /\ scanMessage' = None
    /\ isProcessing' = FALSE
    /\ msgTimers' = EmptyBag
    /\ obs' = NoObs
    /\ subs' = <<>>
    /\ gapTicks' = 0
    /\ UNCHANGED <<view, ev, dashVars, settingsVars, scanTimeout, inflight,
                   nreq, nkeys>>

\* The debounce callback of a Scanner that has been left: the same closure
\* runs, if (value.trim()) handleBarcodeSubmit(value); the setters of the
\* unmounted component do nothing and invoke() is called all the same.
LateScanTimerFire ==
    /\ view = "scanner"
    /\ scannerLeft
    /\ scanTimeout # None
    /\ scanTimeout' = None
    /\ IF Trim(scanTimeout[1].value) # <<>> /\ ~scanTimeout[1].busy
       THEN /\ nreq < MaxRequests
            /\ inflight' = inflight \cup
                  {ScanRequest(nreq + 1, scanTimeout[1].value)}
            /\ nreq' = nreq + 1
       ELSE UNCHANGED <<inflight, nreq>>
    /\ UNCHANGED <<view, ev, scannerLeft, dashVars, settingsVars, barcodeInput,
                   lastScannedItem, scanMessage, isProcessing, msgTimers,
                   nkeys, obs, subs, gapTicks>>

\* A response reaches a Scanner that has been left: the rest of the
\* handler runs on the unmounted component and changes nothing.
LateResponse(req) ==
    /\ view = "scanner"
    /\ scannerLeft
    /\ req \in inflight
    /\ inflight' = inflight \ {req}
    /\ UNCHANGED <<view, ev, scannerLeft, dashVars, settingsVars, barcodeInput,
                   lastScannedItem, scanMessage, isProcessing, scanTimeout,
                   msgTimers, nreq, nkeys, obs, subs, gapTicks>>

ScannerInit ==
    /\ barcodeInput = <<>>
    /\ lastScannedItem = None
    /\ scanMessage = None
    /\ isProcessing = FALSE
    /\ scanTimeout = None
    /\ msgTimers = EmptyBag
    /\ inflight = {}
    /\ nreq = 0
    /\ nkeys = 0
    /\ obs = NoObs
    /\ subs = <<>>
    /\ gapTicks = 0
    /\ scannerLeft = FALSE

ScannerIdle == ScannerInit

ScannerNext ==
    \/ \E c \in Chars : \E fresh \in BOOLEAN : Keystroke(c, fresh)
    \/ ScanTimerFire
    \/ ManualSubmit
    \/ \E a \in {"increment", "decrement"} : QuantityPress(a)
    \/ \E r \in inflight : \E o \in Outcomes(r) : Response(r, o)
    \/ \E ms \in {ScanMsgMs, QtyMsgMs} : MsgTimerFire(ms)
    \/ Tick
    \/ LeaveScanner
    \/ LateScanTimerFire
    \/ \E r \in inflight : LateResponse(r)

----------------------------------------------------------------------------
(* Dashboard: values *)

ItemA ==
    [id |-> 1, barcode |-> <<"1", "A">>, product |-> <<"x">>,
     colour |-> Some(<<"b", "a">>), size |-> None,
     quantity |-> 0, low_stock_threshold |-> 0]

ItemB ==
    [id |-> 2, barcode |-> <<"2">>, product |-> <<"a", "b">>,
     colour |-> None, size |-> Some(<<"B", "B">>),
     quantity |-> 1, low_stock_threshold |-> 0]

\* The tables the owner may have when the view is entered.
Tables == {<<>>, <<ItemA, ItemB>>}

QueryChars == {"a", "B"}

Queries == UNION {[1..n -> QueryChars] : n \in 0..MaxQueryLen}

\* The values one keystroke in the search box can give it.
Retyped(q) ==
    {Append(q, c) : c \in IF Len(q) < MaxQueryLen THEN QueryChars ELSE {}}
    \cup (IF q = <<>> THEN {} ELSE {SubSeq(q, 1, Len(q) - 1)})

\* What the user may type into a text field of the edited row.
EditTexts == {<<"a">>}

LowerChar(c) ==
    IF c = "A" THEN "a"
    ELSE IF c = "B" THEN "b"
    ELSE IF c = "C" THEN "c"
    ELSE IF c = "D" THEN "d"
    ELSE c

\* String.prototype.toLowerCase
ToLowerCase(s) == [i \in 1..Len(s) |-> LowerChar(s[i])]

StartsWith(s, q) == Len(q) <= Len(s) /\ SubSeq(s, 1, Len(q)) = q

\* String.prototype.includes
RECURSIVE Includes(_, _)
Includes(s, q) ==
    IF StartsWith(s, q) THEN TRUE
    ELSE IF s = <<>> THEN FALSE
    ELSE Includes(Tail(s), q)

\* field?.toLowerCase().includes(query.toLowerCase()) on a nullable field:
\* undefined, hence falsy, when the field is null.
OptIncludes(field, query) ==
    IF field = None THEN FALSE
    ELSE Includes(ToLowerCase(field[1]), ToLowerCase(query))

\* A filter that forgets the size.
FilterMatchNoSize(item, query) ==
    \/ Includes(ToLowerCase(item.barcode), ToLowerCase(query))
    \/ Includes(ToLowerCase(item.product), ToLowerCase(query))
    \/ OptIncludes(item.colour, query)

\* The predicate of the filter effect.
FilterMatch(item, query) ==
    \/ Includes(ToLowerCase(item.barcode), ToLowerCase(query))
    \/ Includes(ToLowerCase(item.product), ToLowerCase(query))
    \/ OptIncludes(item.colour, query)
    \/ OptIncludes(item.size, query)

RECURSIVE FilterItems(_, _)
FilterItems(items, query) ==
    IF items = <<>> THEN <<>>
    ELSE IF FilterMatch(Head(items), query)
         THEN <<Head(items)>> \o FilterItems(Tail(items), query)
         ELSE FilterItems(Tail(items), query)

\* The row of the table shows the edit form.
RowInEditMode(item) == editingItem # None /\ editingItem[1].id = item.id

\* The Status cell of a row: "Low Stock", "In Stock", or nothing at all in
\* the edit form, whose sixth cell holds Save and Cancel.
RowStatus(item) ==
    IF RowInEditMode(item) THEN "none"
    ELSE IF LowStock(item) THEN "Low Stock"
    ELSE "In Stock"

Rows == {filteredInventory[i] : i \in 1..Len(filteredInventory)}

RECURSIVE RemoveId(_, _)
RemoveId(items, id) ==
    IF items = <<>> THEN <<>>
    ELSE IF Head(items).id = id THEN RemoveId(Tail(items), id)
    ELSE <<Head(items)>> \o RemoveId(Tail(items), id)

HasId(items, id) == \E i \in 1..Len(items) : items[i].id = id

ItemById(items, id) ==
    items[CHOOSE i \in 1..Len(items) : items[i].id = id]

\* inventory_items after update(fields).eq('id', id): the row takes the
\* fields and, its updated_at being the newest, comes first.
DbUpdate(items, id, fields) ==
    IF HasId(items, id)
    THEN <<[ItemById(items, id) EXCEPT
              !.product = fields.product, !.colour = fields.colour,
              !.size = fields.size, !.quantity = fields.quantity,
              !.low_stock_threshold = fields.low_stock_threshold]>>
         \o RemoveId(items, id)
    ELSE items

\* inventory_items after delete().eq('id', id)
DbDelete(items, id) == RemoveId(items, id)

----------------------------------------------------------------------------
(* Dashboard: handlers *)

\* The Dashboard has been entered and not torn down.
DashShown == view = "dashboard" /\ mounted

\* The Dashboard handles events: without a user the effect has called
\* navigate('/login') and the view is about to be torn down.
DashMounted == DashShown /\ user # None

TheUser == Some("u")

\* An effect cleanup that releases nothing.
ReleasedNever(u) == 0

\* The subscriptions the cleanup of the effect run with user u releases:
\* return () => { subscription.unsubscribe() }, returned only in the branch
\* that subscribed.
Released(u) == IF u = None THEN 0 ELSE 1

\* The subscriptions the effect run with user u makes: none when there is
\* no user (navigate('/login')), else one, after loadInventory().
Acquired(u) == IF u = None THEN 0 ELSE 1

\* loadInventory up to its await
LoadInventory ==
    /\ nops < MaxDashOps
    /\ fetches' = fetches \cup {[id |-> nops + 1, served |-> FALSE, data |-> <<>>]}
    /\ nops' = nops + 1

\* The select runs in the backend.
ServeFetch(f) ==
    /\ DashMounted
    /\ f \in fetches
    /\ ~f.served
    /\ fetches' = (fetches \ {f}) \cup {[f EXCEPT !.served = TRUE, !.data = db]}
    /\ ev' = "handled"
    /\ UNCHANGED <<view, scannerVars, settingsVars, feedVars, inventory, filteredInventory, dashLoading,
                   searchQuery, editingItem, alerts, mutations, notes, db, nops>>

\* The rest of loadInventory, and the filter effect the new inventory runs.
FetchReturn(f, ok) ==
    /\ DashMounted
    /\ f \in fetches
    /\ f.served
    /\ fetches' = fetches \ {f}
    /\ inventory' = IF ok THEN f.data ELSE inventory
    /\ filteredInventory' = FilterItems(inventory', searchQuery)
    /\ dashLoading' = FALSE
    /\ ev' = "handled"
    /\ UNCHANGED <<view, scannerVars, settingsVars, feedVars, searchQuery, editingItem, alerts,
                   mutations, notes, db, nops>>

\* onChange of the search box, and the filter effect the new query runs.
SetSearchQuery(q) ==
    /\ DashMounted
    /\ ~dashLoading
    /\ q \in Retyped(searchQuery)
    /\ searchQuery' = q
    /\ filteredInventory' = FilterItems(inventory, q)
    /\ ev' = "handled"
    /\ UNCHANGED <<view, scannerVars, settingsVars, feedVars, inventory, dashLoading, editingItem,
                   alerts, fetches, mutations, notes, db, nops>>

\* The Edit button of a displayed row: setEditingItem(item)
StartEdit(item) ==
    /\ DashMounted
    /\ ~dashLoading
    /\ item \in Rows
    /\ ~RowInEditMode(item)
    /\ editingItem' = Some(item)
    /\ ev' = "handled"
    /\ UNCHANGED <<view, scannerVars, settingsVars, feedVars, inventory, filteredInventory, dashLoading,
                   searchQuery, alerts, fetches, mutations, notes, db, nops>>

\* The edit form is on display.
EditFormShown ==
    /\ ~dashLoading
    /\ editingItem # None
    /\ HasId(filteredInventory, editingItem[1].id)

\* onChange of a text input of the edit form
EditText(field, v) ==
    /\ DashMounted
    /\ EditFormShown
    /\ nops < MaxDashOps
    /\ nops' = nops + 1
    /\ editingItem' =
          Some(IF field = "product" THEN [editingItem[1] EXCEPT !.product = v]
               ELSE IF field = "colour"
                    THEN [editingItem[1] EXCEPT !.colour = Some(v)]
               ELSE [editingItem[1] EXCEPT !.size = Some(v)])
    /\ ev' = "handled"
    /\ UNCHANGED <<view, scannerVars, settingsVars, feedVars, inventory, filteredInventory, dashLoading,
                   searchQuery, alerts, fetches, mutations, notes, db>>

\* onChange of the quantity input: parseInt(e.target.value) || 0
EditQuantity(q) ==
    /\ DashMounted
    /\ EditFormShown
    /\ nops < MaxDashOps
    /\ nops' = nops + 1
    /\ editingItem' = Some([editingItem[1] EXCEPT !.quantity = q])
    /\ ev' = "handled"
    /\ UNCHANGED <<view, scannerVars, settingsVars, feedVars, inventory, filteredInventory, dashLoading,
                   searchQuery, alerts, fetches, mutations, notes, db>>

\* The Cancel button: setEditingItem(null)
CancelEdit ==
    /\ DashMounted
    /\ EditFormShown
    /\ editingItem' = None
    /\ ev' = "handled"
    /\ UNCHANGED <<view, scannerVars, settingsVars, feedVars, inventory, filteredInventory, dashLoading,
                   searchQuery, alerts, fetches, mutations, notes, db, nops>>

\* The fields handleUpdate sends.
UpdateFields(item) ==
    [product |-> item.product, colour |-> item.colour, size |-> item.size,
     quantity |-> item.quantity,
     low_stock_threshold |-> item.low_stock_threshold]

\* The Save button: handleUpdate(editingItem) up to its await
SaveEdit ==
    /\ DashMounted
    /\ EditFormShown
    /\ nops < MaxDashOps
    /\ mutations' = mutations \cup
          {[id |-> nops + 1, kind |-> "update", item |-> editingItem[1].id,
            fields |-> UpdateFields(editingItem[1])]}
    /\ nops' = nops + 1
    /\ ev' = "handled"
    /\ UNCHANGED <<view, scannerVars, settingsVars, feedVars, inventory, filteredInventory, dashLoading,
                   searchQuery, editingItem, alerts, fetches, notes, db>>

NoFields ==
    [product |-> <<>>, colour |-> None, size |-> None, quantity |-> 0,
     low_stock_threshold |-> 0]

\* A delete that does not wait for the answer.
ProceedsAlways(confirmed) == TRUE

\* if (!confirm('Are you sure ...')) return
Proceeds(confirmed) == confirmed

\* The Delete button of a displayed row: handleDelete(item.id) up to its
\* await; confirmed is the answer to confirm().
DeleteRow(item, confirmed) ==
    /\ DashMounted
    /\ ~dashLoading
    /\ item \in Rows
    /\ ~RowInEditMode(item)
    /\ IF Proceeds(confirmed)
       THEN /\ nops < MaxDashOps
            /\ mutations' = mutations \cup
                  {[id |-> nops + 1, kind |-> "delete", item |-> item.id,
                    fields |-> NoFields]}
            /\ nops' = nops + 1
       ELSE UNCHANGED <<mutations, nops>>
    /\ ev' = IF confirmed THEN "handled" ELSE "declined"
    /\ UNCHANGED <<view, scannerVars, settingsVars, feedVars, inventory, filteredInventory, dashLoading,
                   searchQuery, editingItem, alerts, fetches, notes, db>>

\* A catch block that leaves edit mode and reloads.
MutationFailedResets(m) ==
    /\ alerts' = alerts + 1
    /\ editingItem' = None
    /\ LoadInventory
    /\ UNCHANGED <<db, notes>>

\* catch (error) { console.error(...); alert('Failed to ...') } of
\* handleDelete and handleUpdate
MutationFailed(m) ==
    /\ alerts' = alerts + 1
    /\ UNCHANGED <<db, notes, editingItem, fetches, nops>>

\* The backend runs the request and the rest of handleUpdate / handleDelete
\* follows: on success setEditingItem(null) (update) and loadInventory().
MutationReturn(m, ok) ==
    /\ DashMounted
    /\ m \in mutations
    /\ mutations' = mutations \ {m}
    /\ IF ok
       THEN /\ db' = IF m.kind = "update" THEN DbUpdate(db, m.item, m.fields)
                     ELSE DbDelete(db, m.item)
            /\ notes' = IF db' # db THEN notes + 1 ELSE notes
            /\ editingItem' = IF m.kind = "update" THEN None ELSE editingItem
            /\ LoadInventory
            /\ UNCHANGED alerts
       ELSE MutationFailed(m)
    /\ ev' = IF ok THEN "handled"
             ELSE IF m.kind = "update" THEN "saveFailed" ELSE "deleteFailed"
    /\ UNCHANGED <<view, scannerVars, settingsVars, feedVars, inventory, filteredInventory, dashLoading,
                   searchQuery>>

\* Another client of the owner changes a row (a scan on another device).
ExternalChange(i) ==
    /\ DashMounted
    /\ i \in 1..Len(db)
    /\ nops < MaxDashOps
    /\ nops' = nops + 1
    /\ db[i].quantity < MaxQty
    /\ db' = DbUpdate(db, db[i].id,
                      UpdateFields([db[i] EXCEPT !.quantity = @ + 1]))
    /\ notes' = notes + 1
    /\ ev' = "handled"
    /\ UNCHANGED <<view, scannerVars, settingsVars, feedVars, inventory, filteredInventory, dashLoading,
                   searchQuery, editingItem, alerts, fetches, mutations>>

\* The postgres_changes callback of the subscription: loadInventory()
ChangeNotified ==
    /\ DashMounted
    /\ channels > 0
    /\ notes > 0
    /\ notes' = notes - 1
    /\ LoadInventory
    /\ ev' = "handled"
    /\ UNCHANGED <<view, scannerVars, settingsVars, feedVars, inventory, filteredInventory, dashLoading,
                   searchQuery, editingItem, alerts, mutations, db>>

\* The view leaves the screen: the state of the component is discarded and
\* what is still in flight no longer reaches it.
Unmounted ==
    /\ mounted' = FALSE
    /\ inventory' = <<>>
    /\ filteredInventory' = <<>>
    /\ dashLoading' = TRUE
    /\ searchQuery' = <<>>
    /\ editingItem' = None
    /\ fetches' = {}
    /\ mutations' = {}
    /\ notes' = 0

\* The view is torn down (another route is shown): the cleanup of the
\* effect runs.
TearDown ==
    /\ DashShown
    /\ channels' = channels - Released(user)
    /\ Unmounted
    /\ ev' = "teardown"
    /\ UNCHANGED <<view, scannerVars, settingsVars, user, alerts, db, nops>>

\* useAuth() gives another user value: the cleanup of the effect runs, then
\* the effect again, its dependencies being [user, navigate].  With the same
\* user after a session refresh it loads and subscribes again; with no user
\* (sign-out) it calls navigate('/login'), which takes the view off the
\* screen.
UserChanged(u) ==
    /\ DashMounted
    /\ user' = u
    /\ channels' = channels - Released(user) + Acquired(u)
    /\ IF u = None
       THEN Unmounted /\ UNCHANGED nops
       ELSE /\ LoadInventory
            /\ UNCHANGED <<mounted, inventory, filteredInventory, dashLoading,
                           searchQuery, editingItem, mutations, notes>>
    /\ ev' = IF u = None THEN "signedOut" ELSE "handled"
    /\ UNCHANGED <<view, scannerVars, settingsVars, alerts, db>>

\* The state after the first effects of the mounted view: with a user,
\* loadInventory() has been called and the subscription made; without one,
\* navigate('/login') has been called.
DashInit ==
    /\ user \in {None, TheUser}
    /\ mounted = TRUE
    /\ channels = Acquired(user)
    /\ inventory = <<>>
    /\ filteredInventory = <<>>
    /\ dashLoading = TRUE
    /\ searchQuery = <<>>
    /\ editingItem = None
    /\ alerts = 0
    /\ fetches = IF user = None THEN {}
                 ELSE {[id |-> 1, served |-> FALSE, data |-> <<>>]}
    /\ mutations = {}
    /\ notes = 0
    /\ nops = IF user = None THEN 0 ELSE 1
    /\ db \in IF user = None THEN {<<>>} ELSE Tables

DashIdle ==
    /\ user = None
    /\ mounted = FALSE
    /\ channels = 0
    /\ inventory = <<>>
    /\ filteredInventory = <<>>
    /\ dashLoading = TRUE
    /\ searchQuery = <<>>
    /\ editingItem = None
    /\ alerts = 0
    /\ fetches = {}
    /\ mutations = {}
    /\ notes = 0
    /\ nops = 0
    /\ db = <<>>

DashNext ==
    \/ \E f \in fetches : ServeFetch(f)
    \/ \E f \in fetches : \E ok \in BOOLEAN : FetchReturn(f, ok)
    \/ \E q \in Queries : SetSearchQuery(q)
    \/ \E item \in Rows : StartEdit(item)
    \/ \E field \in {"product", "colour", "size"} :
          \E v \in EditTexts : EditText(field, v)
    \/ \E q \in 0..MaxQty : EditQuantity(q)
    \/ CancelEdit
    \/ SaveEdit
    \/ \E item \in Rows : \E c \in BOOLEAN : DeleteRow(item, c)
    \/ \E m \in mutations : \E ok \in BOOLEAN : MutationReturn(m, ok)
    \/ \E i \in 1..Len(db) : ExternalChange(i)
    \/ ChangeNotified
    \/ TearDown
    \/ \E u \in {None, TheUser} : UserChanged(u)

----------------------------------------------------------------------------
(* Settings: values *)

DefaultRange == "Sheet1!A:F"

\* What a field of the two forms may hold.
FieldValues(field) == IF field = "range" THEN {"", DefaultRange} ELSE {"", "x"}

Fields == {"spreadsheetId", "range", "apiKey", "accessToken"}

\* !field
Blank(v) == v = ""

SheetMsg(type, text, count, errors) ==
    [type |-> type, text |-> text, count |-> count, errors |-> errors]

ImportBlankText == "Please fill in all required fields"
ExportBlankText == "Please fill in all required fields including access token"

SheetFallback(kind) ==
    IF kind = "import" THEN "Failed to import from Google Sheets"
    ELSE "Failed to export to Google Sheets"

\* What supabase.functions.invoke may resolve to for the two sheet functions.
SheetOutcomes ==
    [kind : {"ok"}, msg : {""}, count : {1}, errors : {0, 1}]
    \cup [kind : {"error"}, msg : {"remote", ""}, count : {0}, errors : {0}]
    \cup [kind : {"empty"}, msg : {""}, count : {0}, errors : {0}]

\* The rows a google_sheets_sync select with limit(HistoryLimit) returns.
FirstRows(log) ==
    SubSeq(log, 1, IF Len(log) < HistoryLimit THEN Len(log) ELSE HistoryLimit)

\* The row an import or export function writes on finishing.
SyncRecord(log, status) == [id |-> Len(log) + 1, status |-> status]

OldLog(n) == [i \in 1..n |-> [id |-> n + 1 - i, status |-> "success"]]

----------------------------------------------------------------------------
(* Settings: handlers *)

\* loadSyncHistory up to its await
LoadSyncHistory ==
    histReqs' = histReqs \cup
        {[id |-> Cardinality(histReqs) + nsheet + 1, served |-> FALSE,
          data |-> <<>>]}

\* The select runs in the backend.
ServeHistory(h) ==
    /\ view = "settings"
    /\ h \in histReqs
    /\ ~h.served
    /\ histReqs' = (histReqs \ {h}) \cup
          {[h EXCEPT !.served = TRUE, !.data = FirstRows(syncLog)]}
    /\ ev' = "handled"
    /\ UNCHANGED <<view, scannerVars, dashVars, spreadsheetId, range, apiKey,
                   accessToken, loading, message, syncHistory, sheetReqs,
                   nsheet, syncLog>>

\* The rest of loadSyncHistory
HistoryReturn(h, ok) ==
    /\ view = "settings"
    /\ h \in histReqs
    /\ h.served
    /\ histReqs' = histReqs \ {h}
    /\ syncHistory' = IF ok THEN h.data ELSE syncHistory
    /\ ev' = "handled"
    /\ UNCHANGED <<view, scannerVars, dashVars, spreadsheetId, range, apiKey,
                   accessToken, loading, message, sheetReqs, nsheet, syncLog>>

\* onChange of a field of the two forms
SetField(field, v) ==
    /\ view = "settings"
    /\ v \in FieldValues(field)
    /\ spreadsheetId' = IF field = "spreadsheetId" THEN v ELSE spreadsheetId
    /\ range' = IF field = "range" THEN v ELSE range
    /\ apiKey' = IF field = "apiKey" THEN v ELSE apiKey
    /\ accessToken' = IF field = "accessToken" THEN v ELSE accessToken
    /\ <<spreadsheetId', range', apiKey', accessToken'>>
          # <<spreadsheetId, range, apiKey, accessToken>>
    /\ ev' = "handled"
    /\ UNCHANGED <<view, scannerVars, dashVars, loading, message, syncHistory,
                   sheetReqs, histReqs, nsheet, syncLog>>

\* The credential a form sends.
Credential(kind) == IF kind = "import" THEN apiKey ELSE accessToken

\* A validation that forgets the credential.
MissingFieldNoCredential(kind) == Blank(spreadsheetId) \/ Blank(range)

\* if (!spreadsheetId || !range || !apiKey) / (... || !accessToken)
MissingField(kind) ==
    Blank(spreadsheetId) \/ Blank(range) \/ Blank(Credential(kind))

BlankText(kind) ==
    IF kind = "import" THEN ImportBlankText ELSE ExportBlankText

\* Submit buttons that are never disabled.
SheetSubmitNeverDisabled == FALSE

\* disabled={loading} on the two submit buttons
SheetSubmitDisabled == loading

\* A form is submitted: handleImport / handleExport up to its await, or to
\* its end when a required field is missing.
SubmitSheet(kind) ==
    /\ view = "settings"
    /\ ~SheetSubmitDisabled
    /\ IF MissingField(kind)
       THEN /\ message' = Some(SheetMsg("error", BlankText(kind), 0, 0))
            /\ loading' = FALSE
            /\ UNCHANGED <<sheetReqs, nsheet>>
       ELSE /\ nsheet - Cardinality(sheetReqs) < MaxSheetOps
            /\ message' = None
            /\ loading' = TRUE
            /\ sheetReqs' = sheetReqs \cup
                  {[id |-> nsheet + 1, kind |-> kind,
                    spreadsheetId |-> spreadsheetId, range |-> range,
                    credential |-> Credential(kind)]}
            /\ nsheet' = nsheet + 1
    /\ ev' = IF MissingField(kind) THEN "invalid" ELSE "handled"
    /\ UNCHANGED <<view, scannerVars, dashVars, spreadsheetId, range, apiKey,
                   accessToken, syncHistory, histReqs, syncLog>>

SheetSuccess(kind, out) ==
    SheetMsg("success",
             IF kind = "import" THEN "Successfully imported"
             ELSE "Successfully exported",
             out.count, IF kind = "import" THEN out.errors ELSE 0)

SheetError(kind, text) ==
    SheetMsg("error", IF text = "" THEN SheetFallback(kind) ELSE text, 0, 0)

\* The function finishes, writing its row of google_sheets_sync, and the
\* rest of handleImport / handleExport follows: try, catch, finally.
SheetReturn(req, out) ==
    /\ view = "settings"
    /\ req \in sheetReqs
    /\ out \in SheetOutcomes
    /\ sheetReqs' = sheetReqs \ {req}
    /\ syncLog' = <<SyncRecord(syncLog, IF out.kind = "error" THEN "failed"
                                        ELSE "success")>> \o syncLog
    /\ message' =
          IF out.kind = "ok" THEN Some(SheetSuccess(req.kind, out))
          ELSE IF out.kind = "empty"
               THEN Some(SheetError(req.kind, "TypeError"))
          ELSE Some(SheetError(req.kind, out.msg))
    /\ IF out.kind = "ok" THEN LoadSyncHistory ELSE UNCHANGED histReqs
    /\ loading' = FALSE
    /\ ev' = "handled"
    /\ UNCHANGED <<view, scannerVars, dashVars, spreadsheetId, range, apiKey,
                   accessToken, syncHistory, nsheet>>

\* The state after the first effect of the mounted view: loadSyncHistory()
\* has been called.
SettingsInit ==
    /\ spreadsheetId = ""
    /\ range = DefaultRange
    /\ apiKey = ""
    /\ accessToken = ""
    /\ loading = FALSE
    /\ message = None
    /\ syncHistory = <<>>
    /\ sheetReqs = {}
    /\ histReqs = {[id |-> 0, served |-> FALSE, data |-> <<>>]}
    /\ nsheet = 0
    /\ syncLog \in {OldLog(0), OldLog(HistoryLimit)}

SettingsIdle ==
    /\ spreadsheetId = ""
    /\ range = DefaultRange
    /\ apiKey = ""
    /\ accessToken = ""
    /\ loading = FALSE
    /\ message = None
    /\ syncHistory = <<>>
    /\ sheetReqs = {}
    /\ histReqs = {}
    /\ nsheet = 0
    /\ syncLog = <<>>

SettingsNext ==
    \/ \E h \in histReqs : ServeHistory(h)
    \/ \E h \in histReqs : \E ok \in BOOLEAN : HistoryReturn(h, ok)
    \/ \E f \in Fields : \E v \in FieldValues(f) : SetField(f, v)
    \/ \E k \in {"import", "export"} : SubmitSheet(k)
    \/ \E r \in sheetReqs : \E o \in SheetOutcomes : SheetReturn(r, o)

----------------------------------------------------------------------------

Views == {"scanner", "dashboard", "settings"}

Init ==
    /\ view \in Views
    /\ ev = "init"
    /\ IF view = "scanner" THEN ScannerInit ELSE ScannerIdle
    /\ IF view = "dashboard" THEN DashInit ELSE DashIdle
    /\ IF view = "settings" THEN SettingsInit ELSE SettingsIdle

Next == ScannerNext \/ DashNext \/ SettingsNext

Spec == Init /\ [][Next]_vars

\* The views with a busy flag, in which every remote call returns or fails:
\* the promise of invoke() settles.
BusyViews == {"scanner", "settings"}

\* The rows of the log do not bear on the busy flags: the log starts empty.
FairInit == Init /\ view \in BusyViews /\ syncLog = <<>>

FairNext == ScannerNext \/ SettingsNext

\* An outstanding call of invoke() returns or fails.
Settle ==
    \/ \E r \in inflight : \E o \in Outcomes(r) : Response(r, o)
    \/ \E r \in sheetReqs : \E o \in SheetOutcomes : SheetReturn(r, o)

FairSpec == FairInit /\ [][FairNext]_vars /\ WF_vars(Settle)

----------------------------------------------------------------------------
(* Properties: the scan pipeline *)

\* The buffer the input holds after the characters before the gap.
Buffer1 == obs.base \o obs.part1

\* The record of the submission of a buffer after n observed characters.
Submitted(buffer, n) ==
    [arg |-> buffer, barcode |-> Trim(buffer), at |-> n]

\* C1 as the specification states it: a run of characters with every gap
\* below the idle threshold, begun with nothing outstanding, is followed by
\* exactly one submission, made after the last character, with the whole
\* buffer.
C1_OneSubmissionPerBurst ==
    (obs.shape = "burst" /\ scanTimeout = None)
        => /\ Len(subs) = 1
           /\ subs[1].arg = Buffer1
           /\ subs[1].at = Len(obs.part1)

\* C1, amended: no submission is made before the idle period after the last
\* character has passed; then, if the buffer is not blank after trimming,
\* exactly one submission is made, with the whole buffer, and its request
\* carries the buffer trimmed; a buffer of white space alone is not submitted.
C1_OneSubmissionPerNonBlankBurst ==
    obs.shape = "burst"
        => IF scanTimeout # None THEN subs = <<>>
           ELSE IF Trim(Buffer1) # <<>>
                THEN subs = <<Submitted(Buffer1, Len(obs.part1))>>
                ELSE subs = <<>>

\* C1: a burst of several characters has been submitted, once.
C1_BurstSubmitted ==
    /\ obs.shape = "burst"
    /\ Len(obs.part1) >= 2
    /\ scanTimeout = None
    /\ Len(subs) = 1
    /\ subs[1].barcode # subs[1].arg

\* C2 as the specification states it: a run of characters with one gap above
\* the idle threshold is followed, once everything has settled, by exactly
\* two submissions, the first with the characters before the gap and the
\* second with the characters after it.
C2_TwoSubmissionsPerSplit ==
    (obs.shape = "split" /\ scanTimeout = None /\ inflight = {})
        => /\ Len(subs) = 2
           /\ subs[1].arg = Buffer1
           /\ subs[2].arg = obs.part2

\* C2, amended: if the characters before the gap and those after it are
\* both not blank after trimming, and none of the characters after the gap
\* reached the input while it was disabled (the first request completed
\* before them), then the first submission is made in the gap with the
\* characters before it and, once the idle period after the last character
\* has passed, a second one is made with the characters after the gap, and
\* there is no other.
C2_TwoSubmissionsWhenFirstCompleted ==
    (/\ obs.shape = "split"
     /\ ~obs.dropped
     /\ Trim(Buffer1) # <<>>
     /\ Trim(obs.part2) # <<>>)
        => IF scanTimeout # None
           THEN subs = <<Submitted(Buffer1, Len(obs.part1))>>
           ELSE subs = <<Submitted(Buffer1, Len(obs.part1)),
                         Submitted(obs.part2,
                                   Len(obs.part1) + Len(obs.part2))>>

\* C2: the two halves of a split run have been submitted.
C2_SplitSubmitted ==
    /\ obs.shape = "split"
    /\ ~obs.dropped
    /\ scanTimeout = None
    /\ Len(subs) = 2
    /\ subs[2].arg = obs.part2

ScanRequests == {r \in inflight : r.kind = "scan"}

\* C3: at most one scan request is in flight at any time.
C3_OneScanInFlight == Cardinality(ScanRequests) <= 1

\* C4: at most one mutating request of the Scanner view, scan or quantity
\* adjustment, is outstanding at any time.
C4_OneRequestInFlight == Cardinality(inflight) <= 1

\* C5: no decrement request is sent while the snapshot on display shows a
\* quantity of 0 or less, and the increase control is enabled at every
\* quantity whenever the view is not busy.
C5_NoDecrementAtZero ==
    /\ \A r \in inflight :
          (r.kind = "quantity" /\ r.action = "decrement") => r.shown > 0
    /\ (lastScannedItem # None /\ ~isProcessing)
          => ~QuantityDisabled("increment")

\* C5: an adjustment has been sent while the display showed 0.
C5_AdjustedAtZero ==
    \E r \in inflight :
        r.kind = "quantity" /\ r.shown = 0 /\ r.action = "increment"

----------------------------------------------------------------------------
(* Properties: the inventory table *)

\* C6: the low-stock indicator is shown if and only if quantity <=
\* low_stock_threshold, for every row on display, whatever its mode, and for
\* the last-scanned snapshot.
C6_LowStockShownIffLow ==
    /\ ~dashLoading =>
          \A item \in Rows : (RowStatus(item) = "Low Stock") <=> LowStock(item)
    /\ lastScannedItem # None =>
          (ScannerLowStockShown <=>
              lastScannedItem[1].quantity
                  <= lastScannedItem[1].low_stock_threshold)

\* The pairs of a lower-case letter and its upper-case form.
CaseFold == {<<"a", "A">>, <<"b", "B">>, <<"c", "C">>}

SameLetter(x, y) == x = y \/ <<x, y>> \in CaseFold \/ <<y, x>> \in CaseFold

\* q is a substring of s, the case of letters apart.
Occurs(q, s) ==
    \E k \in 0..(Len(s) - Len(q)) :
        \A i \in 1..Len(q) : SameLetter(s[k + i], q[i])

\* The texts of an item the search looks at: a null colour or size is none.
SearchedTexts(item) ==
    {item.barcode, item.product}
    \cup (IF item.colour = None THEN {} ELSE {item.colour[1]})
    \cup (IF item.size = None THEN {} ELSE {item.size[1]})

QueryOccurs(item) == \E t \in SearchedTexts(item) : Occurs(searchQuery, t)

\* C7: the list on display is exactly the loaded items, in their order, in
\* one of whose barcode, product, colour and size the query occurs, the case
\* of letters apart; with the empty query it is every loaded item.
C7_FilteredIsMatching ==
    /\ filteredInventory = SelectSeq(inventory, QueryOccurs)
    /\ searchQuery = <<>> => filteredInventory = inventory

\* C7: a query has kept one loaded item and left out another.
C7_QueryFilters ==
    /\ searchQuery # <<>>
    /\ Len(inventory) = 2
    /\ Len(filteredInventory) = 1

\* C9: cancelling the inline edit, or declining the confirmation of a
\* delete, sends no request and leaves the loaded inventory, the list on
\* display and the table of the backend as they are; cancelling leaves edit
\* mode.
C9_CancelAndDeclineSendNothing ==
    [][ /\ (CancelEdit \/ \E item \in Rows : DeleteRow(item, FALSE))
           => /\ mutations' = mutations
              /\ fetches' = fetches
              /\ inventory' = inventory
              /\ filteredInventory' = filteredInventory
              /\ db' = db
        /\ CancelEdit => editingItem' = None
      ]_vars

\* C9: a delete has just been declined with every row still in the table
\* and nothing in flight.
C9_Declined ==
    /\ ev = "declined"
    /\ mutations = {}
    /\ fetches = {}
    /\ Len(filteredInventory) = 2

----------------------------------------------------------------------------
(* Properties: the sheet forms and the busy flags *)

ImportBlank == spreadsheetId = "" \/ range = "" \/ apiKey = ""

ExportBlank == spreadsheetId = "" \/ range = "" \/ accessToken = ""

\* What a rejected submission leaves behind.
Rejected(text) ==
    /\ sheetReqs' = sheetReqs
    /\ histReqs' = histReqs
    /\ message' = Some(SheetMsg("error", text, 0, 0))
    /\ ~loading'
    /\ syncHistory' = syncHistory
    /\ syncLog' = syncLog

\* C8: an import submitted with an empty spreadsheet id, range or API key,
\* and an export submitted with an empty spreadsheet id, range or access
\* token, sends no request, shows the validation message of the form, and
\* ends with the busy flag cleared and the sync history as it was, not
\* reloaded.
C8_BlankSubmissionRejected ==
    [][ /\ (SubmitSheet("import") /\ ImportBlank)
           => Rejected("Please fill in all required fields")
        /\ (SubmitSheet("export") /\ ExportBlank)
           => Rejected("Please fill in all required fields including access token")
      ]_vars

\* C8: an export has just been rejected for its access token alone.
C8_ExportRejected ==
    /\ ev = "invalid"
    /\ ~ImportBlank
    /\ ExportBlank
    /\ message # None
    /\ ~loading

\* The busy flag of the view that is mounted.
Busy == IF view = "settings" THEN loading ELSE isProcessing

\* C10: the remote calls returning or failing (FairSpec), a busy flag that
\* is set is eventually cleared, in the Scanner view and in the Settings
\* view, whatever the outcome.
C10_BusyEventuallyCleared == Busy ~> ~Busy

\* C10: a scan whose response raised an exception in the handler has left
\* the view interactive.
C10_ClearedAfterException ==
    /\ scanMessage = Some(ErrorMsg("scan", "TypeError"))
    /\ lastScannedItem = None
    /\ ~isProcessing
    /\ ~InputDisabled
    /\ inflight = {}

----------------------------------------------------------------------------
(* Properties: messages, blank input and completion of a scan *)

\* C11: every message on display has an expiry timer pending, that will
\* clear it without further user action.
C11_MessageHasExpiry == scanMessage # None => msgTimers # EmptyBag

NoSpaceAround(s) == s # <<>> /\ Head(s) # " " /\ s[Len(s)] # " "

\* C12: a debounce timer that fires on an empty or whitespace-only buffer
\* sends no request, raises no message and changes neither the busy flag nor
\* the snapshot; the form is never submitted on such a buffer; and every
\* scan request sent has action increment and a non-empty barcode with no
\* leading or trailing white space.
C12_BlankInputIgnored ==
    [][ /\ (/\ scanTimeout # None
            /\ \A i \in 1..Len(scanTimeout[1].value) :
                  scanTimeout[1].value[i] = " "
            /\ ScanTimerFire)
           => UNCHANGED <<inflight, nreq, scanMessage, isProcessing,
                          lastScannedItem>>
        /\ ManualSubmit =>
              \E i \in 1..Len(barcodeInput) : barcodeInput[i] # " "
        /\ \A r \in inflight' \ inflight :
              r.kind = "scan" =>
                  r.action = "increment" /\ NoSpaceAround(r.barcode)
      ]_vars

\* C12: a timer has fired on a buffer of white space and nothing was sent.
C12_BlankTimerFired ==
    /\ obs.shape = "burst"
    /\ scanTimeout = None
    /\ barcodeInput # <<>>
    /\ Trim(barcodeInput) = <<>>
    /\ nreq = 0
    /\ scanMessage = None

\* C13: whenever a scan request completes, on success or on failure, the
\* input buffer is empty and the busy flag is false immediately afterwards.
C13_ScanCompletionClears ==
    [][ (\E r \in inflight \ inflight' : r.kind = "scan")
           => barcodeInput' = <<>> /\ ~isProcessing'
      ]_vars

\* C13: a scan has failed and left the input empty and enabled.
C13_ClearedAfterFailure ==
    /\ scanMessage = Some(ErrorMsg("scan", "remote"))
    /\ barcodeInput = <<>>
    /\ ~isProcessing
    /\ inflight = {}

----------------------------------------------------------------------------
(* Properties: failures and quantity adjustment *)

\* C14: when a scan or a quantity adjustment ends with an error message,
\* the snapshot is what it was when the request was issued, and the message
\* carries a text.
C14_FailureKeepsSnapshot ==
    [][ \A r \in inflight \ inflight' :
           (IF scanMessage' = None THEN FALSE
            ELSE scanMessage'[1].type = "error")
              => /\ lastScannedItem' = r.snapshot
                 /\ scanMessage'[1].text # ""
      ]_vars

\* C15: a press of a quantity button issues exactly one request, of the
\* pressed direction, with the barcode of the snapshot; an adjustment is
\* never issued without a snapshot; and when an adjustment succeeds the
\* snapshot is the item the request returned.
C15_PressSendsOneAdjustment ==
    [][ /\ \A a \in {"increment", "decrement"} :
              QuantityPress(a) =>
                  /\ Cardinality(inflight' \ inflight) = 1
                  /\ \A r \in inflight' \ inflight :
                        r.kind = "quantity" /\ r.action = a
        /\ \A r \in inflight' \ inflight :
              r.kind = "quantity" =>
                  /\ lastScannedItem # None
                  /\ r.barcode = lastScannedItem[1].barcode
        /\ \A r \in inflight \ inflight' :
              \A o \in Outcomes(r) :
                  (r.kind = "quantity" /\ o.kind = "ok" /\ Response(r, o))
                     => lastScannedItem' = Some(o.item)
      ]_vars

\* C15: an adjustment has succeeded and the snapshot shows what it returned.
C15_Adjusted ==
    /\ scanMessage # None
    /\ scanMessage[1].text = "Updated quantity"
    /\ lastScannedItem # None
    /\ lastScannedItem[1].quantity = scanMessage[1].quantity
    /\ inflight = {}

----------------------------------------------------------------------------
(* Properties: the change feed and the table requests *)

\* C16: every change notification triggers a re-fetch, and when the last
\* outstanding re-fetch returns its rows, with no notification pending and
\* no request of the view outstanding, the loaded inventory is the table of
\* the backend.
C16_ConsistentOnceSettled ==
    [][ /\ ChangeNotified => Cardinality(fetches' \ fetches) = 1
        /\ (/\ \E f \in fetches : FetchReturn(f, TRUE)
            /\ fetches' = {}
            /\ notes' = 0
            /\ mutations' = {})
           => inventory' = db'
      ]_vars

\* C17: the view holds one subscription while it is on the screen with a
\* signed-in user, never more than one, none once it is torn down and none
\* when there is no user.
C17_OneSubscriptionWhileShown ==
    /\ channels <= 1
    /\ DashMounted => channels = 1
    /\ ~mounted => channels = 0
    /\ user = None => channels = 0

\* C17: the view of a signed-in user was torn down after it had loaded and
\* handled further events, and released its subscription.
C17_ReleasedAtTeardown ==
    /\ view = "dashboard"
    /\ ~mounted
    /\ user # None
    /\ ev = "teardown"
    /\ nops > 1
    /\ channels = 0

\* C18: when a save or delete request of the table returns with a failure,
\* an alert is shown, no reload is started and the rows, the edit mode and
\* its working copy stay as they are; when it returns with success, one
\* reload is started, and edit mode is cleared by a save and left alone by
\* a delete.
C18_FailureLeavesStateIntact ==
    [][ \A m \in mutations \ mutations' :
           mounted' =>
              IF alerts' = alerts + 1
              THEN /\ fetches' = fetches
                   /\ inventory' = inventory
                   /\ filteredInventory' = filteredInventory
                   /\ editingItem' = editingItem
              ELSE /\ alerts' = alerts
                   /\ Cardinality(fetches' \ fetches) = 1
                   /\ editingItem' = IF m.kind = "update" THEN None
                                     ELSE editingItem
      ]_vars

\* C18: a save has failed; the row is still displayed in edit mode with the
\* typed working copy, and no load is outstanding.
C18_SaveFailed ==
    /\ ev = "saveFailed"
    /\ alerts > 0
    /\ EditFormShown
    /\ editingItem[1] # ItemById(filteredInventory, editingItem[1].id)
    /\ fetches = {}

----------------------------------------------------------------------------
(* Properties: the spreadsheet operations *)

\* The records of a history list are the newest first.
NewestFirst(rows) == \A i \in 1..(Len(rows) - 1) : rows[i].id > rows[i + 1].id

\* C19: every step in which an import or export finishes starts one reload
\* of the sync history, and a reload that returns rows sets the list to at
\* most five records, the newest first.
C19_HistoryReloadedAfterOperation ==
    [][ /\ sheetReqs' # sheetReqs /\ nsheet' = nsheet
           => Cardinality(histReqs' \ histReqs) = 1
        /\ \A h \in histReqs \ histReqs' :
              HistoryReturn(h, TRUE) =>
                  /\ Len(syncHistory') <= HistoryLimit
                  /\ NewestFirst(syncHistory')
      ]_vars

\* C20: at most one import or export request is outstanding; while one is,
\* the busy flag is set and both submit controls are disabled; and a form
\* is submitted only when none is outstanding.
C20_OneSheetRequest ==
    [][ /\ Cardinality(sheetReqs') <= 1
        /\ sheetReqs' # {} => loading' /\ SheetSubmitDisabled'
        /\ \A k \in {"import", "export"} : SubmitSheet(k) => sheetReqs = {}
      ]_vars

\* C20: a request is outstanding, both forms are filled in, and the
\* controls are disabled.
C20_RequestPending ==
    /\ Cardinality(sheetReqs) = 1
    /\ ~MissingField("import")
    /\ ~MissingField("export")
    /\ loading
    /\ SheetSubmitDisabled

----------------------------------------------------------------------------
(* Properties: expiry of messages and leaving the Scanner *)

\* The delay of the expiry timer armed with a success message.
OwnDelay(m) == IF m.text = "Scanned" THEN ScanMsgMs ELSE QtyMsgMs

\* C21: a displayed message of the Scanner is removed only by the start of
\* a scan submission or by the expiry timer armed with it: a timer that
\* fires removes a success message of its own delay, never an error
\* message and never a success message of the other delay.
C21_RemovedByOwnTimerOnly ==
    [][ (scanMessage # None /\ scanMessage' = None /\ ~scannerLeft') =>
           \/ \E r \in inflight' \ inflight : r.kind = "scan"
           \/ \E ms \in BagToSet(msgTimers) :
                 /\ MsgTimerFire(ms)
                 /\ scanMessage[1].type = "success"
                 /\ ms = OwnDelay(scanMessage[1])
      ]_vars

\* C22: once the Scanner has been left no scan request is issued.
C22_NoScanAfterLeaving ==
    [][ scannerLeft' => \A r \in inflight' \ inflight : r.kind # "scan"
      ]_vars

====
